---- MODULE Spec2Model ----
(***************************************************************************)
(* Model of apps/app_playbg.c: the StartPlayBG / StopPlayBG / ResumePlayBG *)
(* applications and the playbg generator (alloc / release / generate) of   *)
(* one channel.                                                            *)
(*                                                                         *)
(* The channel is the record chan = [datastores, stream, writeformat,      *)
(* generator]; the playbg_state of the code is the record kept in the      *)
(* channel's datastore list.  Every function of the file is an operator    *)
(* from channel to channel (plus a result), and every entry point of the   *)
(* file is one action.                                                     *)
(***************************************************************************)
EXTENDS Integers, Sequences, FiniteSets, TLC

VARIABLES
    dialplan,   \* the resource list the dialplan passes to StartPlayBG
    chan,       \* the channel: datastores, stream, writeformat, generator
    inflight,   \* a generate call picked up by the host just before the generator was deactivated
    lastOp,     \* the entry point that ran last
    lastArg,    \* its argument: the string given to StartPlayBG, the samples asked of generate
    lastRes,    \* its return value and the condition it logged
    log,        \* the collaborator calls (open, seek, frame written) made by the last entry point
    visited,    \* indices used by the seek steps since the last Start (consecutive repeats dropped)
    scen,       \* number of generate calls since Start that each asked for the due resource's duration
    intr,       \* position recorded when the host released the generator, and the resume after it
    stopped,    \* "stop" after a Stop removed the state, "resume" after a Resume that followed it,
                \* "start" after a Start that followed that Resume, "no" otherwise
    stalled,    \* consecutive generate calls that asked for a frame and delivered none (capped)
    captured,   \* the write format the channel had when the generator was last activated
    race        \* the two threads of the statement-level specification RaceSpec (idle in Spec)

vars ==
    <<dialplan, chan, inflight, lastOp, lastArg, lastRes, log, visited, scen, intr, stopped,
      stalled, captured, race>>

-----------------------------------------------------------------------------
(* Bounds of the model *)

MaxFiles == 2

MaxQueue == 260

MaxStalled == 2

MaxObjects == 3

-----------------------------------------------------------------------------
(* The collaborators: resources, frames, formats *)

NameChars == {"a", "b", "e", "x"}

\* Samples held by the resource of a name; 0: it opens and holds no frame;
\* -1: ast_openstream_full fails on it.
FileSamples(name) ==
    IF name = <<"a">> THEN 100
    ELSE IF name = <<"b">> THEN 160
    ELSE IF name = <<"e">> THEN 0
    ELSE -1

\* Samples of a full frame; the last frame of a resource carries what is left.
FrameSamples == 60

\* Write formats of a channel (never 0 on a live channel).
Formats == {1, 2}

\* ast_openstream_full sets the channel's write format to the file's format.
FileFormat(name) == IF name = <<"a">> THEN 2 ELSE 1

\* Sample counts the host asks of generate.
Requests == {100, 160}

\* Which frame write of an invocation ast_write fails on (0: none).
WriteFailAt == {0, 1}

\* Which allocation of playbg_start fails (0: none, 1: datastore, 2: state, 3: file array).
AllocFailAt == {0, 1, 2, 3}

Min(a, b) == IF a < b THEN a ELSE b

-----------------------------------------------------------------------------
(* The specification string and its parsing *)

RECURSIVE Join(_)
\* The string "n1&n2&...&nk" of a list of names.
Join(names) ==
    IF Len(names) = 0 THEN <<>>
    ELSE IF Len(names) = 1 THEN names[1]
    ELSE names[1] \o <<"&">> \o Join(Tail(names))

NameLists == UNION {[1..n -> {<<c>> : c \in NameChars}] : n \in 1..MaxFiles}

\* Arguments given to StartPlayBG: the empty string and the joined lists.
SpecStrings == {<<>>} \cup {Join(l) : l \in NameLists}

\* strchr(opt, '&')
strchr(s) == \E i \in 1..Len(s) : s[i] = "&"

RECURSIVE strsep(_)
\* The tokens strsep(&opt, "&") returns until it returns NULL.
strsep(s) ==
    IF ~strchr(s) THEN <<s>>
    ELSE LET i == CHOOSE k \in 1..Len(s) : s[k] = "&" /\ \A j \in 1..(k-1) : s[j] # "&"
         IN  <<SubSeq(s, 1, i - 1)>> \o strsep(SubSeq(s, i + 1, Len(s)))

\* nfiles as counted by the first pass of playbg_start.
CountFiles(opts) == IF strchr(opts) THEN Len(strsep(opts)) ELSE 1

\* filearray as filled by the second pass of playbg_start.
FileArray(opts) == IF strchr(opts) THEN strsep(opts) ELSE <<opts>>

-----------------------------------------------------------------------------
(* struct playbg_state and the channel *)

NewState(opts, wf) ==
    [filearray    |-> FileArray(opts),
     pos          |-> 0,
     nfiles       |-> CountFiles(opts),
     origwfmt     |-> wf,
     samples      |-> 0,
     sample_queue |-> 0]

\* ast_channel_datastore_find: whether the channel has a playbg datastore.
HasDatastore(c) == c.datastores # <<>>

\* datastore->data of the datastore ast_channel_datastore_find returns (the first).
State(c) == c.datastores[1]

SetState(c, st) == [c EXCEPT !.datastores = <<st>> \o Tail(c.datastores)]

\* ast_closestream(chan->stream); chan->stream = NULL
CloseStream(c) == [c EXCEPT !.stream = <<>>]

\* ast_readframe on the open stream: the samples of the next frame, 0 for no frame.
FrameOf(c) ==
    IF c.stream = <<>> THEN 0
    ELSE Min(FrameSamples, FileSamples(c.stream[1].name) - c.stream[1].off)

\* The stream after ast_readframe returned a frame of n samples.
Advance(c, n) ==
    IF n = 0 THEN c ELSE [c EXCEPT !.stream = <<[name |-> c.stream[1].name, off |-> c.stream[1].off + n]>>]

\* One step of an entry point, as recorded in the log:
\*   "req"    a frame request of the generator loop (idx: pos, n: sample_queue)
\*   "open"   ast_openstream_full succeeded on filearray[idx], sought to offset n
\*   "fail"   ast_openstream_full failed on filearray[idx]
\*   "next"   playbg_readframe moved to the next file (idx: the new pos)
\*   "frame"  a frame of n samples was read and passed to ast_write
\*   "remove" the datastore was removed and freed (idx: its pos, n: its samples)
\*   "close"  playbg_start or playbg_stop closed the stream left open (n: its offset)
Event(e, idx, n) == [e |-> e, idx |-> idx, n |-> n]

Ev(c, e, idx, n) == [c EXCEPT !.ev = Append(@, Event(e, idx, n))]

-----------------------------------------------------------------------------
(* The generator callbacks *)

\* playbg_release: close the stream and restore the write format saved at activation.
playbg_release(c) ==
    IF ~HasDatastore(c) THEN c
    ELSE LET c1 == CloseStream(c)
             st == State(c1)
         IN  IF st.origwfmt # 0 THEN [c1 EXCEPT !.writeformat = st.origwfmt] ELSE c1

\* playbg_seek without the ast_seekstream call: the resource is always read from its start.
playbg_seek_noseek(c) ==
    IF ~HasDatastore(c) THEN [c |-> c, ret |-> -1]
    ELSE LET c1       == CloseStream(c)
             st       == State(c1)
             curr_pos == IF st.pos >= st.nfiles THEN 0 ELSE st.pos
             st1      == [st EXCEPT !.pos = curr_pos]
             name     == st.filearray[curr_pos + 1]
         IN  IF FileSamples(name) < 0
             THEN [c   |-> Ev(SetState(c1, [st1 EXCEPT !.pos = @ + 1]), "fail", curr_pos, 0),
                   ret |-> -1]
             ELSE [c   |-> Ev([SetState(c1, st1) EXCEPT
                                  !.stream = <<[name |-> name, off |-> 0]>>,
                                  !.writeformat = FileFormat(name)],
                              "open", curr_pos, 0),
                   ret |-> 0]

\* playbg_seek with "curr_pos > state->nfiles" for ">=": pos = nfiles is used as it is and
\* the entry read behind the array names nothing that can be opened.
playbg_seek_offbyone(c) ==
    IF ~HasDatastore(c) THEN [c |-> c, ret |-> -1]
    ELSE LET c1       == CloseStream(c)
             st       == State(c1)
             curr_pos == IF st.pos > st.nfiles THEN 0 ELSE st.pos
             st1      == [st EXCEPT !.pos = curr_pos]
             name     == IF curr_pos < st.nfiles THEN st.filearray[curr_pos + 1] ELSE <<"x">>
         IN  IF FileSamples(name) < 0
             THEN [c   |-> Ev(SetState(c1, [st1 EXCEPT !.pos = @ + 1]), "fail", curr_pos, 0),
                   ret |-> -1]
             ELSE [c   |-> Ev([SetState(c1, st1) EXCEPT
                                  !.stream = <<[name |-> name,
                                                off  |-> IF st.samples # 0
                                                         THEN Min(st.samples, FileSamples(name))
                                                         ELSE 0]>>,
                                  !.writeformat = FileFormat(name)],
                              "open", curr_pos, st.samples),
                   ret |-> 0]

\* playbg_seek: close the stream, normalise pos, open filearray[pos] and seek it to samples.
playbg_seek(c) ==
    IF ~HasDatastore(c) THEN [c |-> c, ret |-> -1]
    ELSE LET c1       == CloseStream(c)
             st       == State(c1)
             curr_pos == IF st.pos >= st.nfiles THEN 0 ELSE st.pos
             st1      == [st EXCEPT !.pos = curr_pos]
             name     == st.filearray[curr_pos + 1]
         IN  IF FileSamples(name) < 0
             THEN [c   |-> Ev(SetState(c1, [st1 EXCEPT !.pos = @ + 1]), "fail", curr_pos, 0),
                   ret |-> -1]
             ELSE [c   |-> Ev([SetState(c1, st1) EXCEPT
                                  !.stream = <<[name |-> name,
                                                off  |-> IF st.samples # 0
                                                         THEN Min(st.samples, FileSamples(name))
                                                         ELSE 0]>>,
                                  !.writeformat = FileFormat(name)],
                              "open", curr_pos, st.samples),
                   ret |-> 0]

\* if (!playbg_seek(chan)) f = ast_readframe(chan->stream);
SeekAndRead(c) ==
    LET Read(s) == IF s.ret = 0
                   THEN [c |-> Advance(s.c, FrameOf(s.c)), f |-> FrameOf(s.c)]
                   ELSE [c |-> s.c, f |-> 0]
    IN  Read(playbg_seek(c))

\* playbg_readframe without the second attempt: no frame after the first seek is the end.
playbg_readframe_noretry(c) ==
    LET hot == FrameOf(c)
    IN  IF hot > 0 THEN [c |-> Advance(c, hot), f |-> hot] ELSE SeekAndRead(c)

\* playbg_readframe without state->samples = 0: the next file is sought to the old offset.
playbg_readframe_keepoffset(c) ==
    LET hot == FrameOf(c)
        Second(a) ==
            IF a.f > 0 THEN a
            ELSE IF ~HasDatastore(a.c) THEN [c |-> a.c, f |-> 0]
            ELSE LET st == State(a.c)
                 IN  SeekAndRead(Ev(SetState(a.c, [st EXCEPT !.pos = @ + 1]),
                                    "next", st.pos + 1, 0))
    IN  Second(IF hot > 0 THEN [c |-> Advance(c, hot), f |-> hot] ELSE SeekAndRead(c))

\* playbg_readframe without the read on the open stream: every frame request seeks again.
playbg_readframe_reopen(c) ==
    LET Second(a) ==
            IF a.f > 0 THEN a
            ELSE IF ~HasDatastore(a.c) THEN [c |-> a.c, f |-> 0]
            ELSE LET st == State(a.c)
                 IN  SeekAndRead(Ev(SetState(a.c, [st EXCEPT !.pos = @ + 1, !.samples = 0]),
                                    "next", st.pos + 1, 0))
    IN  Second(SeekAndRead(c))

\* playbg_readframe that sets state->samples = 0 only when pos passes the end of the list.
playbg_readframe_resetatwrap(c) ==
    LET hot == FrameOf(c)
        Second(a) ==
            IF a.f > 0 THEN a
            ELSE IF ~HasDatastore(a.c) THEN [c |-> a.c, f |-> 0]
            ELSE LET st == State(a.c)
                 IN  SeekAndRead(Ev(SetState(a.c, [st EXCEPT
                                        !.pos = @ + 1,
                                        !.samples = IF st.pos + 1 >= st.nfiles THEN 0 ELSE @]),
                                    "next", st.pos + 1, 0))
    IN  Second(IF hot > 0 THEN [c |-> Advance(c, hot), f |-> hot] ELSE SeekAndRead(c))

\* playbg_readframe that moves on and seeks a third time when the second attempt gave no
\* frame either.
playbg_readframe_thirdtry(c) ==
    LET hot == FrameOf(c)
        Third(b) ==
            IF b.f > 0 THEN b
            ELSE IF ~HasDatastore(b.c) THEN [c |-> b.c, f |-> 0]
            ELSE LET st == State(b.c)
                 IN  SeekAndRead(Ev(SetState(b.c, [st EXCEPT !.pos = @ + 1, !.samples = 0]),
                                    "next", st.pos + 1, 0))
        Second(a) ==
            IF a.f > 0 THEN a
            ELSE IF ~HasDatastore(a.c) THEN [c |-> a.c, f |-> 0]
            ELSE LET st == State(a.c)
                 IN  Third(SeekAndRead(Ev(SetState(a.c, [st EXCEPT !.pos = @ + 1,
                                                                  !.samples = 0]),
                                          "next", st.pos + 1, 0)))
    IN  Second(IF hot > 0 THEN [c |-> Advance(c, hot), f |-> hot] ELSE SeekAndRead(c))

\* playbg_readframe without state->pos++: an exhausted file is played again.
playbg_readframe_stay(c) ==
    LET hot == FrameOf(c)
        Second(a) ==
            IF a.f > 0 THEN a
            ELSE IF ~HasDatastore(a.c) THEN [c |-> a.c, f |-> 0]
            ELSE LET st == State(a.c)
                 IN  SeekAndRead(Ev(SetState(a.c, [st EXCEPT !.samples = 0]), "next", st.pos, 0))
    IN  Second(IF hot > 0 THEN [c |-> Advance(c, hot), f |-> hot] ELSE SeekAndRead(c))

\* playbg_readframe: the next frame (f: its samples, 0 for NULL).
playbg_readframe(c) ==
    LET hot == FrameOf(c)
        \* if (!f) { state->pos++; state->samples = 0; seek and read once more }
        Second(a) ==
            IF a.f > 0 THEN a
            ELSE IF ~HasDatastore(a.c) THEN [c |-> a.c, f |-> 0]
            ELSE LET st == State(a.c)
                 IN  SeekAndRead(Ev(SetState(a.c, [st EXCEPT !.pos = @ + 1, !.samples = 0]),
                                    "next", st.pos + 1, 0))
    IN  Second(IF hot > 0 THEN [c |-> Advance(c, hot), f |-> hot] ELSE SeekAndRead(c))

RECURSIVE GenLoop_again(_, _, _)
\* The generator loop asking for a frame once more after playbg_readframe returned none.
GenLoop_again(c, failAt, nw) ==
    IF State(c).sample_queue <= 0 THEN [c |-> c, ret |-> 0, err |-> "none"]
    ELSE LET Written(c1) ==
                 IF failAt = nw + 1 THEN [c |-> c1, ret |-> -1, err |-> "write"]
                 ELSE GenLoop_again(c1, failAt, nw + 1)
             Write(r) ==
                 IF r.f = 0 THEN [c |-> r.c, ret |-> -1, err |-> "eop"]
                 ELSE LET st == State(r.c)
                      IN  Written(Ev(SetState(r.c, [st EXCEPT !.samples = @ + r.f,
                                                              !.sample_queue = @ - r.f]),
                                     "frame", st.pos, r.f))
             Again(r1) == Write(IF r1.f = 0 THEN playbg_readframe(r1.c) ELSE r1)
         IN  Again(playbg_readframe(Ev(c, "req", State(c).pos, State(c).sample_queue)))

RECURSIVE GenLoop_writefirst(_, _, _)
\* The generator loop that counts a frame only after ast_write accepted it.
GenLoop_writefirst(c, failAt, nw) ==
    IF State(c).sample_queue <= 0 THEN [c |-> c, ret |-> 0, err |-> "none"]
    ELSE LET Write(r) ==
                 IF r.f = 0 THEN [c |-> r.c, ret |-> -1, err |-> "eop"]
                 ELSE IF failAt = nw + 1
                 THEN [c |-> Ev(r.c, "frame", State(r.c).pos, r.f), ret |-> -1, err |-> "write"]
                 ELSE LET st == State(r.c)
                      IN  GenLoop_writefirst(
                              Ev(SetState(r.c, [st EXCEPT !.samples = @ + r.f,
                                                          !.sample_queue = @ - r.f]),
                                 "frame", st.pos, r.f),
                              failAt, nw + 1)
         IN  Write(playbg_readframe(Ev(c, "req", State(c).pos, State(c).sample_queue)))

RECURSIVE GenLoop(_, _, _)
\* while (state->sample_queue > 0) of playbg_generator; nw frames were written before.
GenLoop(c, failAt, nw) ==
    IF State(c).sample_queue <= 0 THEN [c |-> c, ret |-> 0, err |-> "none"]
    ELSE LET \* res = ast_write(chan, f); if (res < 0) return -1;
             Written(c1) ==
                 IF failAt = nw + 1 THEN [c |-> c1, ret |-> -1, err |-> "write"]
                 ELSE GenLoop(c1, failAt, nw + 1)
             \* if (!f) return -1; state->samples += f->samples; sample_queue -= f->samples
             Write(r) ==
                 IF r.f = 0 THEN [c |-> r.c, ret |-> -1, err |-> "eop"]
                 ELSE LET st == State(r.c)
                      IN  Written(Ev(SetState(r.c, [st EXCEPT !.samples = @ + r.f,
                                                              !.sample_queue = @ - r.f]),
                                     "frame", st.pos, r.f))
         IN  Write(playbg_readframe(Ev(c, "req", State(c).pos, State(c).sample_queue)))

\* playbg_generator
playbg_generator(c, samples, failAt) ==
    IF ~HasDatastore(c) THEN [c |-> c, ret |-> -1, err |-> "nostate"]
    ELSE LET st == State(c)
         IN  GenLoop(SetState(c, [st EXCEPT !.sample_queue = @ + samples]), failAt, 0)

\* playbg_alloc: the generator data, NULL (FALSE) without a datastore.
playbg_alloc(c) ==
    IF ~HasDatastore(c) THEN [c |-> c, ok |-> FALSE]
    ELSE [c |-> SetState(c, [State(c) EXCEPT !.origwfmt = c.writeformat]), ok |-> TRUE]

\* ast_deactivate_generator with playbg_stream: release the running generator.
ast_deactivate_generator(c) ==
    IF c.generator THEN [playbg_release(c) EXCEPT !.generator = FALSE] ELSE c

\* ast_activate_generator(chan, &playbg_stream, NULL): release a running generator, then alloc.
ast_activate_generator(c) ==
    LET Installed(a) ==
            IF a.ok THEN [c |-> [a.c EXCEPT !.generator = TRUE], ret |-> 0, err |-> "none"]
            ELSE [c |-> a.c, ret |-> -1, err |-> "nostate"]
    IN  Installed(playbg_alloc(IF c.generator
                               THEN [playbg_release(c) EXCEPT !.generator = FALSE]
                               ELSE c))

-----------------------------------------------------------------------------
(* The lifecycle functions *)

\* if (chan->stream) { ast_closestream(chan->stream); chan->stream = NULL; } of start and stop
CloseLeftOpen(c) ==
    IF c.stream = <<>> THEN c ELSE Ev(CloseStream(c), "close", 0, c.stream[1].off)

\* The "if (datastore)" block of playbg_start that keeps the old datastore on the channel.
RemoveOld_keep(c) ==
    IF ~HasDatastore(c) THEN c
    ELSE CloseLeftOpen(ast_deactivate_generator(Ev(c, "remove", State(c).pos, State(c).samples)))

\* The "if (datastore)" block of playbg_start: drop the current state.
RemoveOld(c) ==
    IF ~HasDatastore(c) THEN c
    ELSE CloseLeftOpen(ast_deactivate_generator(
             Ev([c EXCEPT !.datastores = Tail(@)], "remove", State(c).pos, State(c).samples)))

\* playbg_start that adds the datastore to the channel before the file array is allocated.
playbg_start_addearly(c, opts, allocFail) ==
    IF opts = <<>> \/ CountFiles(opts) < 1 THEN [c |-> c, ret |-> -1, err |-> "input"]
    ELSE LET Install(c1) ==
                 IF allocFail \in {1, 2} THEN [c |-> c1, ret |-> -1, err |-> "alloc"]
                 ELSE IF allocFail = 3
                 THEN [c   |-> [c1 EXCEPT !.datastores =
                                   <<[NewState(opts, c1.writeformat) EXCEPT !.filearray = <<>>]>> \o @],
                       ret |-> -1, err |-> "alloc"]
                 ELSE ast_activate_generator(
                          [c1 EXCEPT !.datastores = <<NewState(opts, c1.writeformat)>> \o @])
         IN  Install(RemoveOld(c))

\* playbg_start without the ast_strlen_zero(opts) check: an empty argument is one empty name.
playbg_start_nocheck(c, opts, allocFail) ==
    LET Install(c1) ==
            IF allocFail # 0 THEN [c |-> c1, ret |-> -1, err |-> "alloc"]
            ELSE ast_activate_generator(
                     [c1 EXCEPT !.datastores = <<NewState(opts, c1.writeformat)>> \o @])
    IN  Install(RemoveOld(c))

\* playbg_start
playbg_start(c, opts, allocFail) ==
    IF opts = <<>> \/ CountFiles(opts) < 1 THEN [c |-> c, ret |-> -1, err |-> "input"]
    ELSE LET Install(c1) ==
                 IF allocFail # 0 THEN [c |-> c1, ret |-> -1, err |-> "alloc"]
                 ELSE ast_activate_generator(
                          [c1 EXCEPT !.datastores = <<NewState(opts, c1.writeformat)>> \o @])
         IN  Install(RemoveOld(c))

\* playbg_stop without ast_channel_datastore_remove: the state stays on the channel.
playbg_stop_keep(c) ==
    IF ~HasDatastore(c) THEN [c |-> c, ret |-> 0, err |-> "nostate"]
    ELSE [c |-> CloseLeftOpen(ast_deactivate_generator(c)), ret |-> 0, err |-> "none"]

\* playbg_stop
playbg_stop(c) ==
    IF ~HasDatastore(c) THEN [c |-> c, ret |-> 0, err |-> "nostate"]
    ELSE [c   |-> CloseLeftOpen(ast_deactivate_generator(
                      Ev([c EXCEPT !.datastores = Tail(@)], "remove", State(c).pos, State(c).samples))),
          ret |-> 0, err |-> "none"]

\* playbg_exec_resume without the datastore check: the generator is activated regardless.
playbg_exec_resume_nocheck(c) ==
    IF ~HasDatastore(c) THEN [c |-> [c EXCEPT !.generator = TRUE], ret |-> 0, err |-> "none"]
    ELSE ast_activate_generator(SetState(c, [State(c) EXCEPT !.origwfmt = c.writeformat]))

\* playbg_exec_resume
playbg_exec_resume(c) ==
    IF ~HasDatastore(c) THEN [c |-> c, ret |-> -1, err |-> "nostate"]
    ELSE ast_activate_generator(SetState(c, [State(c) EXCEPT !.origwfmt = c.writeformat]))

-----------------------------------------------------------------------------
(* History kept for the properties *)

\* The channel as the functions work on it: with the log of the calls made so far.
Work(c) ==
    [datastores |-> c.datastores, stream |-> c.stream, writeformat |-> c.writeformat,
     generator |-> c.generator, ev |-> <<>>]

Chan(w) ==
    [datastores |-> w.datastores, stream |-> w.stream, writeformat |-> w.writeformat,
     generator |-> w.generator]

Res(r) == [ret |-> r.ret, err |-> r.err]

NoIntr == [ph |-> "none", k |-> 0, s |-> 0]

\* Both threads idle: no generate call and no application is in the middle of its code.
\*   cur    the datastore object attached to the channel (0: none), nextid the next to allocate
\*   g      the thread in playbg_generator: pc, its datastore pointer ds, samples asked, frame f
\*   l      the thread in playbg_stop or playbg_start: op, pc
\*   acc    the last access to the datastore list or to chan->stream: by, what, locked
\*   uaf    the generate call used its state pointer after the object was freed
NoRace ==
    [cur |-> 0, nextid |-> 1,
     g   |-> [pc |-> "idle", ds |-> 0, samples |-> 0, f |-> 0, ret |-> 0],
     l   |-> [op |-> "none", pc |-> "idle"],
     acc |-> [by |-> "none", what |-> "none", locked |-> TRUE],
     uaf |-> FALSE]

RECURSIVE Visit(_, _, _)
\* visited extended by the values index takes in a log: the index of every seek step that
\* follows a move to the next file, and of any other seek step on a new index.
Visit(v, l, moved) ==
    IF l = <<>> THEN v
    ELSE IF Head(l).e \in {"open", "fail"} /\ (moved \/ v = <<>> \/ v[Len(v)] # Head(l).idx)
         THEN Visit(Append(v, Head(l).idx), Tail(l), FALSE)
         ELSE Visit(v, Tail(l), Head(l).e = "next")

\* The events of one kind in a log.
Sel(l, kinds) == SelectSeq(l, LAMBDA x : x.e \in kinds)

RECURSIVE SumN(_)
SumN(l) == IF l = <<>> THEN 0 ELSE Head(l).n + SumN(Tail(l))

\* Samples of the frames of a log.
Delivered(l) == SumN(Sel(l, {"frame"}))

\* Open attempts of a log.
Opens(l) == Len(Sel(l, {"open", "fail"}))


\* The duration of the resource due at the (n+1)-th invocation after Start.
DueSamples(st, n) == FileSamples(st.filearray[(n % st.nfiles) + 1])

-----------------------------------------------------------------------------
(* The entry points *)

Init ==
    /\ dialplan \in SpecStrings \ {<<>>}
    /\ chan \in [datastores : {<<>>}, stream : {<<>>}, writeformat : Formats,
                 generator : {FALSE}]
    /\ inflight = FALSE
    /\ lastOp = "Init"
    /\ lastArg = <<>>
    /\ lastRes = [ret |-> 0, err |-> "none"]
    /\ log = <<>>
    /\ visited = <<>>
    /\ scen = -1
    /\ intr = NoIntr
    /\ stopped = "no"
    /\ stalled = 0
    /\ captured = chan.writeformat
    /\ race = NoRace

\* StartPlayBG(opts): playbg_exec_start
StartPlayBG ==
    \E opts \in {dialplan, <<>>}, allocFail \in AllocFailAt :
        \E r \in {playbg_start(Work(chan), opts, allocFail)} :
            /\ chan' = Chan(r.c)
            /\ lastOp' = "Start"
            /\ lastArg' = opts
            /\ lastRes' = Res(r)
            /\ log' = r.c.ev
            /\ visited' = IF r.ret = 0 THEN <<0>> ELSE <<>>
            /\ scen' = IF r.ret = 0 THEN 0 ELSE -1
            /\ intr' = NoIntr
            /\ inflight' = (chan.generator /\ ~r.c.generator)
            /\ stopped' = IF r.ret # 0 THEN stopped
                          ELSE IF stopped = "resume" THEN "start" ELSE "no"
            /\ stalled' = IF r.ret = 0 THEN 0 ELSE stalled
            /\ captured' = IF r.ret = 0 /\ HasDatastore(r.c) THEN State(r.c).origwfmt ELSE captured
            /\ UNCHANGED <<dialplan, race>>

\* StopPlayBG(): playbg_exec_stop
StopPlayBG ==
    \E r \in {playbg_stop(Work(chan))} :
        /\ chan' = Chan(r.c)
        /\ lastOp' = "Stop"
        /\ lastArg' = <<>>
        /\ lastRes' = Res(r)
        /\ log' = r.c.ev
        /\ visited' = <<>>
        /\ scen' = -1
        /\ intr' = NoIntr
        /\ inflight' = (chan.generator /\ ~r.c.generator)
        /\ stopped' = IF r.err = "none" THEN "stop" ELSE stopped
        /\ UNCHANGED <<dialplan, stalled, captured, race>>

\* ResumePlayBG(): playbg_exec_resume
ResumePlayBG ==
    \E r \in {playbg_exec_resume(Work(chan))} :
        /\ chan' = Chan(r.c)
        /\ lastOp' = "Resume"
        /\ lastArg' = <<>>
        /\ lastRes' = Res(r)
        /\ log' = r.c.ev
        /\ visited' = <<>>
        /\ scen' = -1
        /\ intr' = IF intr.ph = "released" /\ r.ret = 0
                   THEN [intr EXCEPT !.ph = "resumed"] ELSE NoIntr
        /\ inflight' = FALSE
        /\ captured' = IF r.ret = 0 /\ HasDatastore(r.c) THEN State(r.c).origwfmt ELSE captured
        /\ stopped' = IF stopped \in {"stop", "resume"} THEN "resume" ELSE "no"
        /\ UNCHANGED <<dialplan, stalled, race>>

\* The generate callback runs: playbg_generator(chan, data, len, samples).
Generate ==
    /\ chan.generator \/ inflight
    /\ \E samples \in Requests, failAt \in WriteFailAt :
        /\ HasDatastore(chan) => State(chan).sample_queue + samples <= MaxQueue
        /\ \E r \in {playbg_generator(Work(chan), samples, failAt)} :
           LET inScen == /\ scen >= 0
                         /\ HasDatastore(chan)
                         /\ scen <= State(chan).nfiles
                         /\ samples = DueSamples(State(chan), scen)
                         /\ r.ret = 0
           IN  /\ chan' = Chan(r.c)
               /\ lastOp' = "Generate"
               /\ lastArg' = samples
               /\ lastRes' = Res(r)
               /\ log' = r.c.ev
               /\ scen' = IF inScen THEN scen + 1 ELSE -1
               /\ visited' = IF inScen THEN Visit(visited, r.c.ev, FALSE) ELSE <<>>
               /\ intr' = IF intr.ph = "resumed"
                          THEN (IF r.c.ev # <<>> THEN [intr EXCEPT !.ph = "first"] ELSE intr)
                          ELSE NoIntr
               /\ stalled' = IF r.c.ev = <<>> THEN stalled
                             ELSE IF Delivered(r.c.ev) > 0 THEN 0
                             ELSE IF stalled < MaxStalled THEN stalled + 1 ELSE stalled
    /\ inflight' = FALSE
    /\ stopped' = IF stopped = "start" THEN "no" ELSE stopped
    /\ UNCHANGED <<dialplan, captured, race>>

\* The host deactivates the generator (foreground audio, or a failed generate call).
HostDeactivate ==
    /\ chan.generator
    /\ chan' = Chan(ast_deactivate_generator(Work(chan)))
    /\ lastOp' = "HostDeactivate"
    /\ lastArg' = <<>>
    /\ lastRes' = [ret |-> 0, err |-> "none"]
    /\ log' = <<>>
    /\ visited' = <<>>
    /\ scen' = -1
    /\ intr' = IF HasDatastore(chan) /\ State(chan).samples > 0
               THEN [ph |-> "released", k |-> State(chan).pos, s |-> State(chan).samples]
               ELSE NoIntr
    /\ inflight' = TRUE
    /\ stopped' = IF stopped = "start" THEN "no" ELSE stopped
    /\ UNCHANGED <<dialplan, stalled, captured, race>>

Next ==
    \/ StartPlayBG
    \/ StopPlayBG
    \/ ResumePlayBG
    \/ Generate
    \/ HostDeactivate

Spec == Init /\ [][Next]_vars

-----------------------------------------------------------------------------
(* The statement-level specification: a generate call on one thread and a     *)
(* StopPlayBG or StartPlayBG on another, interleaved between the statements of *)
(* playbg_generator, playbg_stop and playbg_start.  A step is the code between *)
(* two places where the other thread can run; ast_channel_lock ... unlock      *)
(* sections are one step.                                                      *)

hist ==
    <<dialplan, inflight, lastOp, lastArg, lastRes, log, visited, scen, intr, stopped, stalled,
      captured>>

\* A channel that is playing: right after StartPlayBG(dialplan), or one generate call later.
RaceInit ==
    /\ dialplan \in SpecStrings \ {<<>>}
    /\ \E wf \in Formats, n \in {0} \cup Requests :
        \E started \in {playbg_start([datastores |-> <<>>, stream |-> <<>>, writeformat |-> wf,
                                      generator |-> FALSE, ev |-> <<>>], dialplan, 0).c} :
            chan = Chan(IF n = 0 THEN started ELSE playbg_generator(started, n, 0).c)
    /\ race = [NoRace EXCEPT !.cur = 1, !.nextid = 2]
    /\ inflight = FALSE
    /\ lastOp = "Init"
    /\ lastArg = <<>>
    /\ lastRes = [ret |-> 0, err |-> "none"]
    /\ log = <<>>
    /\ visited = <<>>
    /\ scen = -1
    /\ intr = NoIntr
    /\ stopped = "no"
    /\ stalled = 0
    /\ captured = chan.writeformat

\* The host calls the generate callback of the active generator.
G_Begin ==
    /\ race.g.pc = "idle"
    /\ chan.generator
    /\ \E samples \in Requests :
        /\ HasDatastore(chan) => State(chan).sample_queue + samples <= MaxQueue
        /\ race' = [race EXCEPT !.g = [pc |-> "find", ds |-> 0, samples |-> samples,
                                       f |-> 0, ret |-> 0]]
    /\ UNCHANGED <<chan, hist>>

\* playbg_generator: lock, ast_channel_datastore_find, unlock; state = datastore->data
G_Find ==
    /\ race.g.pc = "find"
    /\ race' = [race EXCEPT !.g.ds  = race.cur,
                            !.g.pc  = IF race.cur = 0 THEN "idle" ELSE "queue",
                            !.g.ret = IF race.cur = 0 THEN -1 ELSE 0,
                            !.acc   = [by |-> "G", what |-> "find", locked |-> TRUE]]
    /\ UNCHANGED <<chan, hist>>

\* state->sample_queue += samples; through a pointer to a freed object the write goes to
\* freed memory: the call goes on or the process dies.
G_Queue ==
    /\ race.g.pc = "queue"
    /\ IF race.g.ds = race.cur
       THEN /\ chan' = SetState(chan, [State(chan) EXCEPT !.sample_queue = @ + race.g.samples])
            /\ race' = [race EXCEPT !.g.pc = "loop"]
       ELSE /\ chan' = chan
            /\ \E out \in {"loop", "crashed"} : race' = [race EXCEPT !.g.pc = out, !.uaf = TRUE]
    /\ UNCHANGED hist

\* while (state->sample_queue > 0); read through a pointer to a freed object, any value.
G_Loop ==
    /\ race.g.pc = "loop"
    /\ IF race.g.ds = race.cur
       THEN race' = [race EXCEPT !.g.pc = IF State(chan).sample_queue > 0 THEN "read" ELSE "idle"]
       ELSE \E out \in {"read", "idle", "crashed"} :
                race' = [race EXCEPT !.g.pc = out, !.uaf = TRUE]
    /\ UNCHANGED <<chan, hist>>

\* f = playbg_readframe(chan): reads chan->stream without the lock, finds the datastore again.
G_Read ==
    /\ race.g.pc = "read"
    /\ \E r \in {playbg_readframe(Work(chan))} :
        /\ chan' = Chan(r.c)
        /\ race' = [race EXCEPT !.g.f   = r.f,
                                !.g.pc  = IF r.f = 0 THEN "idle" ELSE "account",
                                !.g.ret = IF r.f = 0 THEN -1 ELSE @,
                                !.acc   = [by |-> "G", what |-> "stream", locked |-> FALSE]]
    /\ UNCHANGED hist

\* state->samples += f->samples; state->sample_queue -= f->samples; res = ast_write(chan, f)
G_Account ==
    /\ race.g.pc = "account"
    /\ \E failed \in BOOLEAN :
        IF race.g.ds = race.cur
        THEN /\ chan' = SetState(chan, [State(chan) EXCEPT !.samples = @ + race.g.f,
                                                          !.sample_queue = @ - race.g.f])
             /\ race' = [race EXCEPT !.g.pc  = IF failed THEN "idle" ELSE "loop",
                                     !.g.ret = IF failed THEN -1 ELSE 0]
        ELSE /\ chan' = chan
             /\ \E out \in {IF failed THEN "idle" ELSE "loop", "crashed"} :
                    race' = [race EXCEPT !.g.pc = out, !.uaf = TRUE]
    /\ UNCHANGED hist

\* The dialplan runs StopPlayBG or StartPlayBG(dialplan).
L_Begin ==
    /\ race.l.pc = "idle"
    /\ \E op \in {"stop", "start"} :
        /\ op = "start" => race.nextid <= MaxObjects
        /\ race' = [race EXCEPT !.l = [op |-> op, pc |-> "find"]]
    /\ UNCHANGED <<chan, hist>>

\* playbg_stop / playbg_start: lock, ast_channel_datastore_find, unlock
L_Find ==
    /\ race.l.pc = "find"
    /\ race' = [race EXCEPT !.l.pc = IF race.cur # 0 THEN "remove"
                                     ELSE IF race.l.op = "stop" THEN "idle" ELSE "alloc",
                            !.acc  = [by |-> "L", what |-> "find", locked |-> TRUE]]
    /\ UNCHANGED <<chan, hist>>

\* lock, ast_channel_datastore_remove, unlock; ast_channel_datastore_free (playbg_state_destroy)
L_Remove ==
    /\ race.l.pc = "remove"
    /\ chan' = [chan EXCEPT !.datastores = Tail(@)]
    /\ race' = [race EXCEPT !.cur  = 0,
                            !.l.pc = "deactivate",
                            !.acc  = [by |-> "L", what |-> "remove", locked |-> TRUE]]
    /\ UNCHANGED hist

\* ast_deactivate_generator(chan)
L_Deactivate ==
    /\ race.l.pc = "deactivate"
    /\ chan' = Chan(ast_deactivate_generator(Work(chan)))
    /\ race' = [race EXCEPT !.l.pc = "close"]
    /\ UNCHANGED hist

\* if (chan->stream) { ast_closestream(chan->stream); chan->stream = NULL; }, no lock taken
L_Close ==
    /\ race.l.pc = "close"
    /\ chan' = Chan(CloseLeftOpen(Work(chan)))
    /\ race' = [race EXCEPT !.l.pc = IF race.l.op = "stop" THEN "idle" ELSE "alloc",
                            !.acc  = [by |-> "L", what |-> "stream", locked |-> FALSE]]
    /\ UNCHANGED hist

\* playbg_start: ast_channel_datastore_alloc, ast_calloc of the state and of the file array
L_Alloc ==
    /\ race.l.pc = "alloc"
    /\ \E allocFail \in AllocFailAt :
        race' = [race EXCEPT !.l.pc = IF allocFail # 0 THEN "idle" ELSE "add"]
    /\ UNCHANGED <<chan, hist>>

\* playbg_start: fill the state; ast_channel_datastore_add(chan, datastore), no lock taken
L_Add ==
    /\ race.l.pc = "add"
    /\ chan' = [chan EXCEPT !.datastores = <<NewState(dialplan, chan.writeformat)>> \o @]
    /\ race' = [race EXCEPT !.cur    = race.nextid,
                            !.nextid = @ + 1,
                            !.l.pc   = "activate",
                            !.acc    = [by |-> "L", what |-> "add", locked |-> FALSE]]
    /\ UNCHANGED hist

\* playbg_start: res = ast_activate_generator(chan, &playbg_stream, NULL)
L_Activate ==
    /\ race.l.pc = "activate"
    /\ chan' = Chan(ast_activate_generator(Work(chan)).c)
    /\ race' = [race EXCEPT !.l.pc = "idle"]
    /\ UNCHANGED hist

RaceNext ==
    \/ G_Begin
    \/ G_Find
    \/ G_Queue
    \/ G_Loop
    \/ G_Read
    \/ G_Account
    \/ L_Begin
    \/ L_Find
    \/ L_Remove
    \/ L_Deactivate
    \/ L_Close
    \/ L_Alloc
    \/ L_Add
    \/ L_Activate

RaceSpec == RaceInit /\ [][RaceNext]_vars

-----------------------------------------------------------------------------
(* Properties *)

\* The sequence 0, 1, ..., n-1.
Upto(n) == [i \in 1..n |-> i - 1]

\* C1 as stated: after Start and N generate calls, each asking for the due resource's
\* full duration, index has visited 0, 1, ..., N-1 and 0 again.
C1_WrapAfterN ==
    (HasDatastore(chan) /\ scen = State(chan).nfiles)
        => visited = Upto(State(chan).nfiles) \o <<0>>

\* C1, amended: after Start and N such generate calls index has visited exactly
\* 0, 1, ..., N-1 and rests on N-1; the (N+1)-th call, asking for the first resource's
\* duration, makes it visit 0 again.  No value is skipped and no other value is taken.
C1_Wraparound ==
    HasDatastore(chan) =>
        LET st == State(chan)
        IN  /\ (scen >= 1 /\ scen <= st.nfiles)
                => (visited = Upto(scen) /\ st.pos = scen - 1)
            /\ scen = st.nfiles + 1
                => (visited = Upto(st.nfiles) \o <<0>> /\ st.pos = 0)

\* A list of two resources has been played through and index is back on 0.
C1_Witness ==
    /\ HasDatastore(chan)
    /\ State(chan).nfiles = 2
    /\ scen = 3
    /\ visited = <<0, 1, 0>>

\* C2: a Resume that follows a release of the generator at (index k, sampleOffset s > 0)
\* changes neither index, sampleOffset nor the file list, and the first frame request
\* after it opens the resource at index k and seeks it to offset s before any frame.
C2_OffsetFidelity ==
    /\ (lastOp = "Resume" /\ intr.ph = "resumed")
        => /\ HasDatastore(chan)
           /\ State(chan).pos = intr.k
           /\ State(chan).samples = intr.s
           /\ State(chan).filearray = FileArray(dialplan)
           /\ chan.generator
    /\ intr.ph = "first"
        => /\ Len(log) >= 2
           /\ log[1].e = "req"
           /\ log[2] = Event("open", intr.k, intr.s)

\* A resource was left part-way, the generator released and resumed, and frames flow again.
C2_Witness ==
    /\ intr.ph = "first"
    /\ HasDatastore(chan)
    /\ intr.s > 0
    /\ intr.s < FileSamples(State(chan).filearray[intr.k + 1])
    /\ Delivered(log) > 0

\* C3: Stop leaves no state, so a Resume after a Stop fails with the missing-state error
\* and activates no generator; a Start that passes the input check and whose allocations
\* succeed installs one state with index 0, sampleOffset 0 and pendingSamples 0.
C3_StopThenResumeOrStart ==
    /\ lastOp = "Stop" => ~HasDatastore(chan)
    /\ (lastOp = "Resume" /\ stopped = "resume")
        => /\ lastRes = [ret |-> -1, err |-> "nostate"]
           /\ ~HasDatastore(chan)
           /\ ~chan.generator
    /\ (lastOp = "Start" /\ lastRes.err \notin {"input", "alloc"})
        => /\ lastRes = [ret |-> 0, err |-> "none"]
           /\ Len(chan.datastores) = 1
           /\ State(chan).pos = 0
           /\ State(chan).samples = 0
           /\ State(chan).sample_queue = 0
           /\ State(chan).filearray = FileArray(dialplan)
           /\ chan.generator

\* A state was stopped, a Resume was tried, and a Start installed a state again.
C3_Witness ==
    /\ lastOp = "Start"
    /\ stopped = "start"
    /\ HasDatastore(chan)

\* C8: Stop, Resume and generate, run while the channel has no playbg state, report the
\* missing state and leave the datastore list, the generator activation, the stream and
\* the write format as they were.
C8_MissingStateNoOp ==
    [][(~HasDatastore(chan) /\ lastOp' \in {"Stop", "Resume", "Generate"})
          => (chan' = chan /\ lastRes'.err = "nostate")]_vars

\* A second Stop that follows a Stop.
C8_Witness ==
    /\ lastOp = "Stop"
    /\ lastRes.err = "nostate"
    /\ stopped = "stop"

\* A generate call that was in flight when Stop removed the state.
C8_WitnessGenerate ==
    /\ lastOp = "Generate"
    /\ lastRes.err = "nostate"

\* The indices of the unreadable entries of a state's list.
Unreadable(st) == {i \in 0..(st.nfiles - 1) : FileSamples(st.filearray[i + 1]) < 0}

\* The indices of the entries that open and hold no frame.
Empty(st) == {i \in 0..(st.nfiles - 1) : FileSamples(st.filearray[i + 1]) = 0}

\* C4: in a list of N >= 2 entries with exactly one unreadable entry, the others holding
\* frames, index never rests on the unreadable entry after a generate call that asked for
\* a frame, and playback goes on: of two consecutive generate calls that ask for a
\* frame, at least one delivers frames of a readable entry.
C4_SkipUnreadable ==
    (/\ HasDatastore(chan)
     /\ State(chan).nfiles >= 2
     /\ Cardinality(Unreadable(State(chan))) = 1
     /\ Empty(State(chan)) = {})
        => /\ stalled <= 1
           /\ (lastOp = "Generate" /\ log # <<>>) => State(chan).pos \notin Unreadable(State(chan))
           /\ lastOp = "Generate"
                => \A i \in 1..Len(log) :
                       /\ log[i].e = "fail" => log[i].idx \in Unreadable(State(chan))
                       /\ log[i].e = "frame" => log[i].idx \notin Unreadable(State(chan))

\* The list starts with the unreadable entry and frames of the entry after it were delivered.
C4_Witness ==
    /\ HasDatastore(chan)
    /\ State(chan).nfiles >= 2
    /\ Unreadable(State(chan)) = {0}
    /\ Empty(State(chan)) = {}
    /\ lastOp = "Generate"
    /\ State(chan).pos = 1
    /\ Delivered(log) > 0

\* C5: with a list of one entry, which is unreadable, every generate call (the request is
\* positive) makes one frame request and two open attempts, delivers no frame and fails
\* with end-of-playback.
C5_SingleUnreadable ==
    (lastOp = "Generate" /\ HasDatastore(chan) /\ State(chan).nfiles = 1
     /\ Unreadable(State(chan)) = {0})
        => /\ lastRes = [ret |-> -1, err |-> "eop"]
           /\ Len(Sel(log, {"req"})) = 1
           /\ Sel(log, {"open", "fail", "frame"}) = <<Event("fail", 0, 0), Event("fail", 0, 0)>>
           /\ chan.stream = <<>>

\* The second failed generate call in a row on such a list.
C5_Witness ==
    /\ lastOp = "Generate"
    /\ HasDatastore(chan)
    /\ State(chan).nfiles = 1
    /\ Unreadable(State(chan)) = {0}
    /\ stalled = 2
    /\ State(chan).sample_queue >= 200

\* The position of the last seek step of a log, 0 if it has none.
LastSeek(l) ==
    IF Opens(l) = 0 THEN 0
    ELSE CHOOSE i \in 1..Len(l) :
             /\ l[i].e \in {"open", "fail"}
             /\ \A j \in (i + 1)..Len(l) : l[j].e \notin {"open", "fail"}

\* C6: when the open resource is exhausted while pendingSamples > 0 (the seek on it gives
\* no frame), the same generate call moves index to the next entry, wrapping to 0, with
\* sampleOffset 0; a next resource that holds frames is opened at offset 0 and the frames
\* come from its start, so that the call ends with index on it and sampleOffset equal to the
\* samples drawn from it.  Start("a") with a of 100 samples and a request of 160 ends
\* with index 0 and sampleOffset 60.
C6_AdvanceOnExhaustion ==
    [][(lastOp' = "Generate" /\ HasDatastore(chan))
          => LET l    == log'
                 pre  == State(chan)
                 post == State(chan')
                 j    == LastSeek(l)
             IN  /\ \A i \in 2..Len(l) :
                        (l[i].e = "next" /\ l[i - 1].e = "open")
                            => /\ l[i].idx = l[i - 1].idx + 1
                               /\ i < Len(l)
                               /\ l[i + 1].e \in {"open", "fail"}
                               /\ l[i + 1].idx = (IF l[i].idx >= pre.nfiles THEN 0 ELSE l[i].idx)
                               /\ l[i + 1].n = 0
                               /\ (l[i + 1].e = "open" /\ l[i + 1].idx \notin Empty(pre))
                                      => (i + 1 < Len(l) /\ l[i + 2].e = "frame")
                 /\ (j > 0 /\ l[j].e = "open")
                        => /\ post.pos = l[j].idx
                           /\ post.samples = l[j].n + Delivered(SubSeq(l, j + 1, Len(l)))
                 /\ (/\ pre.filearray = <<<<"a">>>>
                     /\ pre.pos = 0 /\ pre.samples = 0 /\ pre.sample_queue = 0
                     /\ chan.stream = <<>>
                     /\ l # <<>> /\ l[1].n = 160
                     /\ lastRes'.ret = 0)
                        => /\ Sel(l, {"open", "fail", "next"})
                                = <<Event("open", 0, 0), Event("open", 0, 100),
                                    Event("next", 1, 0), Event("open", 0, 0)>>
                           /\ post.pos = 0
                           /\ post.samples = 60
                           /\ post.sample_queue = 0]_vars

\* Start("a") and a request of 160 samples: a was played to its end and 60 samples again.
C6_Witness ==
    /\ lastOp = "Generate"
    /\ dialplan = <<"a">>
    /\ log # <<>>
    /\ log[1] = Event("req", 0, 160)
    /\ Sel(log, {"next"}) # <<>>
    /\ lastRes.ret = 0
    /\ State(chan).samples = 60

\* The samples the resource that a generate call starts on still holds: of the open
\* stream, or of filearray[pos] from sampleOffset on when no stream is open.
SamplesLeft(c) ==
    IF c.stream # <<>> THEN FileSamples(c.stream[1].name) - c.stream[1].off
    ELSE IF State(c).pos < State(c).nfiles /\ FileSamples(State(c).filearray[State(c).pos + 1]) >= 0
         THEN FileSamples(State(c).filearray[State(c).pos + 1]) - State(c).samples
         ELSE -1

\* C7: a generate call whose pending samples are covered by what the current resource
\* still holds opens nothing when the stream is open (and the resource once when it is
\* not), leaves index alone and adds to sampleOffset exactly the samples of the frames
\* delivered.  Start("b&a") with b of 160 samples and a request of 160: one open,
\* sampleOffset 160, index 0.
C7_HotPath ==
    [][(lastOp' = "Generate" /\ HasDatastore(chan))
          => LET l    == log'
                 pre  == State(chan)
                 post == State(chan')
                 pending == IF l = <<>> THEN 0 ELSE l[1].n
             IN  /\ (pending > 0 /\ SamplesLeft(chan) >= pending)
                        => /\ Opens(l) = (IF chan.stream # <<>> THEN 0 ELSE 1)
                           /\ Sel(l, {"fail", "next"}) = <<>>
                           /\ post.pos = pre.pos
                           /\ post.samples = pre.samples + Delivered(l)
                           /\ Delivered(l) <= SamplesLeft(chan)
                           /\ lastRes'.err \in {"none", "write"}
                           /\ lastRes'.ret = 0 => Delivered(l) >= pending
                 /\ (/\ pre.filearray[1] = <<"b">>
                     /\ pre.pos = 0 /\ pre.samples = 0 /\ pre.sample_queue = 0
                     /\ chan.stream = <<>>
                     /\ pending = 160
                     /\ lastRes'.ret = 0)
                        => /\ Opens(l) = 1
                           /\ post.samples = 160
                           /\ post.pos = 0]_vars

\* A generate call served by the stream that was already open: frames and no open.
C7_Witness ==
    /\ lastOp = "Generate"
    /\ lastRes.ret = 0
    /\ Delivered(log) > 0
    /\ Opens(log) = 0

\* Start("b&a") and a request of 160 samples served by b alone.
C7_WitnessExample ==
    /\ lastOp = "Generate"
    /\ dialplan = <<"b", "&", "a">>
    /\ scen = 1
    /\ Opens(log) = 1
    /\ State(chan).samples = 160
    /\ State(chan).pos = 0

\* C9: the channel never holds more than one playbg state; a Start that finds one removes
\* it and closes its stream, so that after Start the only state is the new one, at its
\* beginning, and no stream of the old list is open.
C9_SingleState ==
    /\ Len(chan.datastores) <= 1
    /\ (lastOp = "Start" /\ lastRes.err # "input") => chan.stream = <<>>
    /\ (lastOp = "Start" /\ lastRes.ret = 0)
        => /\ State(chan).filearray = FileArray(dialplan)
           /\ State(chan).pos = 0
           /\ State(chan).samples = 0
           /\ State(chan).sample_queue = 0

\* A Start replaced a state that was part-way through a resource with its stream open.
C9_Witness ==
    /\ lastOp = "Start"
    /\ lastRes.ret = 0
    /\ \E i \in 1..Len(log) : log[i].e = "remove" /\ log[i].n > 0
    /\ Sel(log, {"close"}) # <<>>

\* C11: a StartPlayBG given an empty argument returns -1 and leaves the channel as it
\* was: the attached state with its files, pos, samples and sample_queue, the generator
\* activation, the open stream and the write format; no datastore is added.
C11_EmptyStartNoMutation ==
    [][(lastOp' = "Start" /\ lastArg' = <<>>)
           => (/\ lastRes'.ret = -1
               /\ chan' = chan
               /\ log' = <<>>)]_vars

\* An empty StartPlayBG on a channel that is playing: state attached with samples
\* consumed, generator active, stream open.
C11_Witness ==
    /\ lastOp = "Start"
    /\ lastArg = <<>>
    /\ lastRes.ret = -1
    /\ HasDatastore(chan)
    /\ State(chan).samples > 0
    /\ chan.generator
    /\ chan.stream # <<>>

\* An empty StartPlayBG on a channel without a state: none is created.
C11_WitnessNoState ==
    /\ lastOp = "Start"
    /\ lastArg = <<>>
    /\ ~HasDatastore(chan)

\* C12 as stated: a generate call that races with StopPlayBG or with a StartPlayBG that
\* replaces the state never reads or writes a playbg_state that was removed and freed; it
\* ends on a live state or returns -1.
C12_NoUseOfDestroyedState ==
    /\ ~race.uaf
    /\ race.g.pc # "crashed"

\* C13 as stated: every find, add and remove on the channel's datastore list and every
\* read or write of chan->stream is made with the channel lock held by the acting thread.
C13_AccessUnderLock ==
    race.acc.what \in {"find", "add", "remove", "stream"} => race.acc.locked

\* C14 as stated: Stop deactivates the generator and closes the stream before it removes
\* and destroys the datastore, so while Stop runs the generator is never active and no
\* stream is open on a channel whose datastore has been removed.
C14_DeactivateBeforeRemove ==
    (race.l.op = "stop" /\ race.l.pc \in {"deactivate", "close"})
        => (~chan.generator /\ chan.stream = <<>>)

\* C15: every open attempt uses an index i with 0 <= i < nfiles; pos is never negative; a
\* pos >= nfiles is set to 0 by the next open attempt (the attempt that follows a move
\* past the end of the list is on entry 0), and samples is 0 wherever that happens: at
\* the move inside a generate call, and in every state left with pos >= nfiles.
C15_IndexInRange ==
    HasDatastore(chan) =>
        /\ State(chan).pos >= 0
        /\ State(chan).pos >= State(chan).nfiles => State(chan).samples = 0
        /\ \A i \in 1..Len(log) :
               /\ log[i].e \in {"open", "fail"}
                      => (0 <= log[i].idx /\ log[i].idx < State(chan).nfiles)
               /\ (log[i].e = "next" /\ log[i].idx >= State(chan).nfiles)
                      => /\ i < Len(log)
                         /\ log[i + 1].e \in {"open", "fail"}
                         /\ log[i + 1].idx = 0
                         /\ log[i + 1].n = 0

\* A generate call that moved past the last entry and opened entry 0 at offset 0.
C15_Witness ==
    /\ lastOp = "Generate"
    /\ HasDatastore(chan)
    /\ State(chan).nfiles = 2
    /\ \E i \in 1..(Len(log) - 1) :
           /\ log[i].e = "next"
           /\ log[i].idx >= State(chan).nfiles
           /\ log[i + 1] = Event("open", 0, 0)

\* A generate call that left pos >= nfiles behind (its second open attempt failed).
C15_WitnessAtRest ==
    /\ lastOp = "Generate"
    /\ HasDatastore(chan)
    /\ State(chan).pos >= State(chan).nfiles

RECURSIVE Track(_, _, _)
\* Follows samples through the log of a generate call: own is the index the frames that
\* make up s were delivered from.  A frame must come from own and adds to s; a move to
\* the next file resets s; an open at offset 0 makes its index the owner; an open at a
\* non-zero offset must be at offset s on index own.  The result is <<own, s>>, or <<>>
\* when one of these fails.
Track(l, own, s) ==
    IF l = <<>> THEN <<own, s>>
    ELSE LET x == Head(l)
         IN  IF x.e = "frame"
             THEN (IF x.idx = own THEN Track(Tail(l), own, s + x.n) ELSE <<>>)
             ELSE IF x.e = "next" THEN Track(Tail(l), own, 0)
             ELSE IF x.e = "open"
             THEN (IF x.n # s THEN <<>>
                   ELSE IF x.n = 0 THEN Track(Tail(l), x.idx, 0)
                   ELSE IF x.idx = own THEN Track(Tail(l), own, s)
                   ELSE <<>>)
             ELSE Track(Tail(l), own, s)

\* C16: samples is never applied to another resource than the one it was accumulated on.
\* In every generate call each stream opened at a non-zero offset is the entry at the
\* index whose frames make up that offset, with no move to another index in between
\* that did not reset samples; the call leaves pos on that index with samples equal to
\* the offset followed; Resume and a release by the host leave pos and samples alone.
C16_OffsetOnOwnResource ==
    [][(HasDatastore(chan) /\ HasDatastore(chan'))
           => /\ lastOp' = "Generate"
                    => \E t \in {Track(log', State(chan).pos, State(chan).samples)} :
                           /\ t # <<>>
                           /\ t[2] = State(chan').samples
                           /\ t[2] > 0 => t[1] = State(chan').pos
              /\ lastOp' \in {"Resume", "HostDeactivate"}
                    => /\ State(chan').pos = State(chan).pos
                       /\ State(chan').samples = State(chan).samples]_vars

\* A generate call that reopened entry 1 of a list at the non-zero offset reached on it
\* in earlier calls.
C16_Witness ==
    /\ lastOp = "Generate"
    /\ \E i \in 1..Len(log) :
           /\ log[i].e = "open"
           /\ log[i].idx = 1
           /\ log[i].n > 0
    /\ Delivered(log) > 0

RECURSIVE AfterNext(_)
\* The part of a log that follows its last move to the next file.
AfterNext(l) ==
    IF Sel(l, {"next"}) = <<>> THEN l
    ELSE AfterNext(Tail(l))

RECURSIVE Drains(_, _)
\* Every frame request of a log is made with q > 0 pending, and every frame takes its
\* samples off q; the result is what is left, or 1 when a request does not show q.
Drains(l, q) ==
    IF l = <<>> THEN q
    ELSE IF Head(l).e = "req"
         THEN (IF Head(l).n = q /\ q > 0 THEN Drains(Tail(l), q) ELSE 1)
    ELSE IF Head(l).e = "frame" THEN Drains(Tail(l), q - Head(l).n)
    ELSE Drains(Tail(l), q)

\* C17: a generate call adds the samples asked to sample_queue; every frame fetched adds
\* its samples to samples and takes them off sample_queue before it is written (also
\* when the write then fails); frames are fetched only while sample_queue > 0; a call
\* that returns 0 leaves -FrameSamples < sample_queue <= 0.
C17_QuotaAccounting ==
    [][(lastOp' = "Generate" /\ HasDatastore(chan))
           => /\ HasDatastore(chan')
              /\ State(chan').sample_queue
                     = State(chan).sample_queue + lastArg' - Delivered(log')
              /\ Drains(log', State(chan).sample_queue + lastArg') = State(chan').sample_queue
              /\ State(chan').samples
                     = (IF Sel(log', {"next"}) = <<>> THEN State(chan).samples ELSE 0)
                           + Delivered(AfterNext(log'))
              /\ lastRes'.ret = 0
                     => /\ State(chan').sample_queue <= 0
                        /\ State(chan').sample_queue > -FrameSamples
              /\ lastRes'.ret # 0
                     => \/ lastRes'.err = "write"
                        \/ lastRes'.err = "eop" /\ State(chan').sample_queue > 0]_vars

\* A call that returned 0 after several frames, the last one overshooting the quota.
C17_Witness ==
    /\ lastOp = "Generate"
    /\ lastRes.ret = 0
    /\ HasDatastore(chan)
    /\ State(chan).sample_queue < 0
    /\ Len(Sel(log, {"frame"})) >= 2

\* A call whose first write failed: the frame is counted all the same.
C17_WitnessWriteFailed ==
    /\ lastOp = "Generate"
    /\ lastRes.err = "write"
    /\ HasDatastore(chan)
    /\ Delivered(log) > 0
    /\ State(chan).sample_queue = lastArg - Delivered(log)

\* C18: a StartPlayBG in which an allocation fails (datastore, state or file array)
\* returns -1 and leaves no datastore on the channel, also when one was attached before
\* the call (it is removed first), and the generator is not active.
C18_AllocFailureLeavesNothing ==
    (lastOp = "Start" /\ lastRes.err = "alloc")
        => /\ lastRes.ret = -1
           /\ ~HasDatastore(chan)
           /\ ~chan.generator

\* A failed allocation in a StartPlayBG that found a state attached and removed it.
C18_Witness ==
    /\ lastOp = "Start"
    /\ lastRes.err = "alloc"
    /\ Sel(log, {"remove"}) # <<>>

\* A failed allocation in a StartPlayBG on a channel without a state.
C18_WitnessFresh ==
    /\ lastOp = "Start"
    /\ lastRes.err = "alloc"
    /\ log = <<>>

RECURSIVE SeeksPerRequest(_, _)
\* No frame request of a log makes more than two open attempts (n counts those of the
\* request under way).
SeeksPerRequest(l, n) ==
    IF n > 2 THEN FALSE
    ELSE IF l = <<>> THEN TRUE
    ELSE IF Head(l).e = "req" THEN SeeksPerRequest(Tail(l), 0)
    ELSE IF Head(l).e \in {"open", "fail"} THEN SeeksPerRequest(Tail(l), n + 1)
    ELSE SeeksPerRequest(Tail(l), n)

RECURSIVE PosWalk(_, _, _)
\* Follows pos through a log: an open attempt is on pos, or on 0 when pos >= nfiles; a
\* failed one leaves pos one further; a move to the next file is to pos + 1.  The result
\* is the last pos, or -1 when a change is neither of these.
PosWalk(l, p, nfiles) ==
    IF l = <<>> THEN p
    ELSE LET x == Head(l)
             q == IF p >= nfiles THEN 0 ELSE p
         IN  IF x.e = "open" THEN (IF x.idx = q THEN PosWalk(Tail(l), q, nfiles) ELSE -1)
             ELSE IF x.e = "fail"
             THEN (IF x.idx = q THEN PosWalk(Tail(l), q + 1, nfiles) ELSE -1)
             ELSE IF x.e = "next"
             THEN (IF x.idx = p + 1 THEN PosWalk(Tail(l), p + 1, nfiles) ELSE -1)
             ELSE PosWalk(Tail(l), p, nfiles)

\* C19: every generate call ends, with 0 or -1: no frame request makes more than two open
\* attempts; a request that gets no frame ends the call; every frame carries at least one
\* sample, so there are no more requests than samples pending; pos changes only by +1
\* or by the wrap to 0.  This holds for every list, those of unreadable entries included.
C19_InvocationTerminates ==
    [][(lastOp' = "Generate" /\ HasDatastore(chan))
           => /\ lastRes'.ret \in {0, -1}
              /\ SeeksPerRequest(log', 0)
              /\ \A i \in 1..Len(log') : log'[i].e = "frame" => log'[i].n >= 1
              /\ Len(Sel(log', {"req"})) <= State(chan).sample_queue + lastArg'
              /\ Len(Sel(log', {"req"})) - Len(Sel(log', {"frame"}))
                     = (IF lastRes'.err = "eop" THEN 1 ELSE 0)
              /\ PosWalk(log', State(chan).pos, State(chan).nfiles) = State(chan').pos]_vars

\* A generate call on a list of two unreadable entries: one request, two failed open
\* attempts, -1.
C19_Witness ==
    /\ lastOp = "Generate"
    /\ HasDatastore(chan)
    /\ Unreadable(State(chan)) = {0, 1}
    /\ Opens(log) = 2
    /\ lastRes.ret = -1

\* A generate call on a list of entries that open and hold no frame: two opens, -1.
C19_WitnessEmpty ==
    /\ lastOp = "Generate"
    /\ HasDatastore(chan)
    /\ Empty(State(chan)) = 0..(State(chan).nfiles - 1)
    /\ Sel(log, {"open", "fail"}) = <<Event("open", 0, 0), Event("open", 0, 0)>>
    /\ lastRes.ret = -1

\* A frame request that took two open attempts and got its frame from the second.
C19_WitnessTwoSeeks ==
    /\ lastOp = "Generate"
    /\ lastRes.ret = 0
    /\ \E i \in 1..(Len(log) - 3) :
           /\ log[i].e = "req"
           /\ log[i + 1].e \in {"open", "fail"}
           /\ log[i + 2].e = "next"
           /\ log[i + 3].e = "open"

\* C20 as stated: pos advances by exactly one per entry that fails to open, so the open
\* attempt that follows a failed one on entry k is on entry (k + 1) mod nfiles, in the
\* same generate call or, when the call ends there, in the next one; no readable entry
\* is passed over.
C20_NextAfterUnreadable ==
    [][(lastOp' = "Generate" /\ HasDatastore(chan) /\ HasDatastore(chan'))
           => \A i \in 1..Len(log') :
                  log'[i].e = "fail"
                      => LET later == {j \in (i + 1)..Len(log') : log'[j].e \in {"open", "fail"}}
                             due   == (log'[i].idx + 1) % State(chan).nfiles
                         IN  IF later = {}
                             THEN State(chan').pos % State(chan).nfiles = due
                             ELSE \A j \in later :
                                      (\A m \in later : j <= m) => log'[j].idx = due]_vars

\* C10 as stated: after a deactivation of the generator by Stop, by a Start that replaces
\* a state, or by the host, the write format is the one captured at activation and no
\* stream is open.
C10_ReleaseRestoresFormat ==
    (inflight /\ lastOp \in {"Stop", "Start", "HostDeactivate"})
        => (chan.writeformat = captured /\ chan.stream = <<>>)

====
